---------------------------- MODULE Spec2Model ----------------------------
(***************************************************************************)
(* A model of the drawing-extraction pipeline of src/api/extract.py:       *)
(* cluster_text, is_construction_marker, extract_drawing_elements,         *)
(* extract_title_block_info and the part of handler.do_POST that calls     *)
(* them.  Text is a sequence of one-character strings; the regular         *)
(* expressions of the source are run by a small backtracking matcher that  *)
(* follows Python's re semantics (leftmost, alternatives in order, greedy  *)
(* repetition).                                                            *)
(***************************************************************************)
EXTENDS Integers, Sequences, FiniteSets, TLC

VARIABLES
    \* extract_drawing_elements / do_POST
    pc, doc, page_num, results, response, log,
    \* the loop of cluster_text
    cpc, spans, current, clusters, next_i, members, run_members,
    \* is_construction_marker as a function of its argument
    mpc, text, verdict

pipeVars    == <<pc, doc, page_num, results, response, log>>
clusterVars == <<cpc, spans, current, clusters, next_i, members, run_members>>
markerVars  == <<mpc, text, verdict>>
vars        == <<pipeVars, clusterVars, markerVars>>

---------------------------------------------------------------------------
(* Characters *)

UpperSeq == <<"A","B","C","D","E","F","G","H","I","J","K","L","M",
              "N","O","P","Q","R","S","T","U","V","W","X","Y","Z">>
LowerSeq == <<"a","b","c","d","e","f","g","h","i","j","k","l","m",
              "n","o","p","q","r","s","t","u","v","w","x","y","z">>

Range(f) == { f[k] : k \in DOMAIN f }

UPPER == Range(UpperSeq)
LOWER == Range(LowerSeq)
DIGIT == {"0","1","2","3","4","5","6","7","8","9"}
SPACE == {" ", "\t", "\n"}

\* the other case of a letter (re.IGNORECASE), any other character itself
SwapCase(c) ==
    IF c \in UPPER THEN LowerSeq[CHOOSE k \in DOMAIN UpperSeq : UpperSeq[k] = c]
    ELSE IF c \in LOWER THEN UpperSeq[CHOOSE k \in DOMAIN LowerSeq : LowerSeq[k] = c]
    ELSE c

\* str.strip(): leading and trailing whitespace removed
RECURSIVE LStrip(_)
LStrip(s) == IF Len(s) > 0 /\ s[1] \in SPACE THEN LStrip(Tail(s)) ELSE s

RECURSIVE RStrip(_)
RStrip(s) ==
    IF Len(s) > 0 /\ s[Len(s)] \in SPACE THEN RStrip(SubSeq(s, 1, Len(s) - 1)) ELSE s

Strip(s) == LStrip(RStrip(s))

---------------------------------------------------------------------------
(* Regular expressions.  A pattern is a sequence of items:                 *)
(*   Set(cls, min, max)  a character class repeated min..max times, greedy *)
(*   Many(cls, min)      a character class repeated min or more times      *)
(*   Alt(<<p1, ..>>)     alternatives, tried in order                      *)
(*   GOpen, GClose       the parentheses of a capturing group              *)
(*   Bol, Eol            ^ and $                                           *)

Set(cls, min, max) == [k |-> "set", cls |-> cls, min |-> min, max |-> max, unb |-> FALSE]
Many(cls, min)     == [k |-> "set", cls |-> cls, min |-> min, max |-> min, unb |-> TRUE]
Alt(alts)  == [k |-> "alt", alts |-> alts]
GOpen      == [k |-> "open"]
GClose     == [k |-> "close"]
Bol        == [k |-> "bol"]
Eol        == [k |-> "eol"]
Lit(word)  == [j \in 1..Len(word) |-> Set({word[j]}, 1, 1)]

CharIn(c, cls, ic) == c \in cls \/ (ic /\ SwapCase(c) \in cls)

\* how many characters from position i on lie in cls, at most max of them
\* (all of them when unb)
RECURSIVE RunLen(_, _, _, _, _, _)
RunLen(s, i, cls, ic, unb, max) ==
    IF (unb \/ max > 0) /\ i <= Len(s) /\ CharIn(s[i], cls, ic)
    THEN 1 + RunLen(s, i + 1, cls, ic, unb, max - 1)
    ELSE 0

\* The match of pattern items at position i of s: <<>> when there is none,
\* else <<marks>>, marks being the positions at each GOpen and GClose passed,
\* in order, followed by the position after the match.
RECURSIVE MatchHere(_, _, _, _)
RECURSIVE TryRep(_, _, _, _, _, _)
RECURSIVE TryAlt(_, _, _, _, _, _)

MatchHere(items, s, i, ic) ==
    IF Len(items) = 0 THEN << <<i>> >>
    ELSE LET it   == Head(items)
             rest == Tail(items)
         IN CASE it.k = "set" ->
                   TryRep(it, rest, s, i, ic, RunLen(s, i, it.cls, ic, it.unb, it.max))
              [] it.k = "alt" -> TryAlt(it.alts, 1, rest, s, i, ic)
              [] it.k \in {"open", "close"} ->
                   LET r == MatchHere(rest, s, i, ic)
                   IN IF r = <<>> THEN <<>> ELSE << <<i>> \o r[1] >>
              [] it.k = "bol" ->
                   IF i = 1 THEN MatchHere(rest, s, i, ic) ELSE <<>>
              [] it.k = "eol" ->
                   IF i = Len(s) + 1 \/ (i = Len(s) /\ s[i] = "\n")
                   THEN MatchHere(rest, s, i, ic) ELSE <<>>

\* greedy repetition: the longest run first, giving characters back one by one
TryRep(it, rest, s, i, ic, n) ==
    IF n < it.min THEN <<>>
    ELSE LET r == MatchHere(rest, s, i + n, ic)
         IN IF r # <<>> THEN r ELSE TryRep(it, rest, s, i, ic, n - 1)

TryAlt(alts, a, rest, s, i, ic) ==
    IF a > Len(alts) THEN <<>>
    ELSE LET r == MatchHere(alts[a] \o rest, s, i, ic)
         IN IF r # <<>> THEN r ELSE TryAlt(alts, a + 1, rest, s, i, ic)

\* re.match: the pattern at the start of s
ReMatch(items, s, ic) == MatchHere(items, s, 1, ic)

\* re.search: the first position from i on where the pattern matches
RECURSIVE SearchFrom(_, _, _, _)
SearchFrom(items, s, i, ic) ==
    IF i > Len(s) + 1 THEN <<>>
    ELSE LET r == MatchHere(items, s, i, ic)
         IN IF r # <<>> THEN r ELSE SearchFrom(items, s, i + 1, ic)

ReSearch(items, s, ic) == SearchFrom(items, s, 1, ic)

\* match.group(g) for a match with marks m
Group(s, m, g) == SubSeq(s, m[2 * g - 1], m[2 * g] - 1)
\* match.lastindex, every group of these patterns taking part in a match
LastIndex(m) == (Len(m) - 1) \div 2
\* match.groups()
Groups(s, m) == [g \in 1..LastIndex(m) |-> Group(s, m, g)]

---------------------------------------------------------------------------
(* is_construction_marker *)

\* the patterns with the digits of the fourth left optional
patterns_fourth_without_digits == <<
    <<Bol, Set(UPPER, 1, 4), Set(DIGIT, 1, 3), Set(LOWER, 0, 1), Eol>>,
    <<Bol, Set(UPPER, 1, 2), Set({"-"}, 1, 1), Set(DIGIT, 1, 3), Eol>>,
    <<Bol, Set(UPPER, 1, 1), Set(DIGIT, 1, 3), Set(UPPER, 0, 1), Eol>>,
    <<Bol, GOpen,
      Alt(<<Lit(<<"S","C">>), Lit(<<"B","P">>), Lit(<<"R","W">>), Lit(<<"F","B">>),
            Lit(<<"C">>), Lit(<<"B">>), Lit(<<"W">>)>>),
      GClose, Set(DIGIT, 0, 3), Eol>> >>

patterns == <<
    <<Bol, Set(UPPER, 1, 4), Set(DIGIT, 1, 3), Set(LOWER, 0, 1), Eol>>,
    <<Bol, Set(UPPER, 1, 2), Set({"-"}, 1, 1), Set(DIGIT, 1, 3), Eol>>,
    <<Bol, Set(UPPER, 1, 1), Set(DIGIT, 1, 3), Set(UPPER, 0, 1), Eol>>,
    <<Bol, GOpen,
      Alt(<<Lit(<<"S","C">>), Lit(<<"B","P">>), Lit(<<"R","W">>), Lit(<<"F","B">>),
            Lit(<<"C">>), Lit(<<"B">>), Lit(<<"W">>)>>),
      GClose, Set(DIGIT, 1, 3), Eol>> >>

\* the classifier with re.IGNORECASE, as the title-block patterns are searched
is_construction_marker_ignorecase(t) ==
    \E p \in DOMAIN patterns : ReMatch(patterns[p], Strip(t), TRUE) # <<>>

is_construction_marker(t) ==
    \E p \in DOMAIN patterns : ReMatch(patterns[p], Strip(t), FALSE) # <<>>

---------------------------------------------------------------------------
(* cluster_text.  Coordinates are whole page units.  A span is a record     *)
(* with the keys text, x, y, bbox, font, size, color, flags; bbox is        *)
(* <<x0, y0, x1, y1>>.                                                      *)

threshold == 5

Abs(n) == IF n < 0 THEN 0 - n ELSE n
Max(a, b) == IF a >= b THEN a ELSE b

\* the sort key compared strictly: a sort that puts a span before those of
\* its own key
KeyLeq_strict(a, b) == a.y < b.y \/ (a.y = b.y /\ a.x < b.x)

\* the sort key of line 27
KeyLeq(a, b) == a.y < b.y \/ (a.y = b.y /\ a.x <= b.x)

\* list.sort is stable: e goes behind every element whose key is not greater
RECURSIVE InsertSorted(_, _)
InsertSorted(sorted, e) ==
    IF Len(sorted) = 0 THEN <<e>>
    ELSE IF KeyLeq(sorted[Len(sorted)], e) THEN Append(sorted, e)
    ELSE Append(InsertSorted(SubSeq(sorted, 1, Len(sorted) - 1), e), sorted[Len(sorted)])

RECURSIVE SortSpans(_)
SortSpans(s) ==
    IF Len(s) = 0 THEN <<>>
    ELSE InsertSorted(SortSpans(SubSeq(s, 1, Len(s) - 1)), s[Len(s)])

\* same_line with the bound of 2 included
same_line_inclusive(next_span, cur) == Abs(next_span.y - cur.y) <= 2

same_line(next_span, cur) == Abs(next_span.y - cur.y) < 2

\* close_horizontally measured from the cluster's x, its text's width left out
close_horizontally_from_x(next_span, cur, thr) == (next_span.x - cur.x) < thr

close_horizontally(next_span, cur, thr) ==
    (next_span.x - (cur.x + Len(cur.text) * 2)) < thr

\* lines 40-46: the current cluster after it has taken next_span in
MergeSpan(cur, next_span) ==
    [cur EXCEPT !.text = cur.text \o next_span.text,
                !.bbox = << cur.bbox[1], cur.bbox[2], next_span.bbox[3],
                            Max(cur.bbox[4], next_span.bbox[4]) >>]

\* lines 48-49 and 52-53: the clusters after cur is given up
Emit(cl, cur) == IF Strip(cur.text) # <<>> THEN Append(cl, cur) ELSE cl

Continues(next_span, cur, thr) ==
    same_line(next_span, cur) /\ close_horizontally(next_span, cur, thr)

RECURSIVE ClusterFrom(_, _, _, _, _)
ClusterFrom(sorted, i, cur, cl, thr) ==
    IF i > Len(sorted) THEN Emit(cl, cur)
    ELSE IF Continues(sorted[i], cur, thr)
    THEN ClusterFrom(sorted, i + 1, MergeSpan(cur, sorted[i]), cl, thr)
    ELSE ClusterFrom(sorted, i + 1, sorted[i], Emit(cl, cur), thr)

cluster_text(sp, thr) ==
    IF Len(sp) = 0 THEN <<>>
    ELSE LET sorted == SortSpans(sp)
         IN ClusterFrom(sorted, 2, sorted[1], <<>>, thr)

---------------------------------------------------------------------------
(* extract_title_block_info *)

SEP == SPACE \cup {".", ":"}

title_patterns == <<
    [key |-> "drawing_number",
     pat |-> << Alt(<<Lit(<<"D","W","G">>), Lit(<<"D","R","A","W","I","N","G">>)>>),
                Many(SEP, 0), GOpen, Many(UPPER \cup DIGIT \cup {"-"}, 1), GClose >>],
    [key |-> "revision",
     pat |-> << Alt(<<Lit(<<"R","E","V">>), Lit(<<"R","E","V","I","S","I","O","N">>)>>),
                Many(SEP, 0), GOpen, Many(UPPER \cup DIGIT, 1), GClose >>],
    [key |-> "scale",
     pat |-> << Alt(<<Lit(<<"S","C","A","L","E">>)>>), Many(SEP, 0), GOpen,
                Alt(<< <<Many(DIGIT, 1), Set({":"}, 1, 1), Many(DIGIT, 1)>>,
                       <<Many(DIGIT, 1), Set({"/"}, 1, 1), Many(DIGIT, 1)>> >>),
                GClose >>],
    [key |-> "date",
     pat |-> << GOpen, Set(DIGIT, 1, 2), Set({"/", "-"}, 1, 1), Set(DIGIT, 1, 2),
                Set({"/", "-"}, 1, 1), Set(DIGIT, 2, 4), GClose >>],
    [key |-> "sheet",
     pat |-> << Alt(<<Lit(<<"S","H","E","E","T">>), Lit(<<"S","H","T">>)>>),
                Many(SEP, 0), GOpen, Many(DIGIT, 1), GClose, Many(SPACE, 0),
                Alt(<<Lit(<<"O","F">>), Lit(<<"/">>)>>), Many(SPACE, 0),
                GOpen, Many(DIGIT, 1), GClose >>] >>

\* ' '.join(texts)
RECURSIVE Join(_)
Join(texts) ==
    IF Len(texts) = 0 THEN <<>>
    ELSE IF Len(texts) = 1 THEN texts[1]
    ELSE texts[1] \o <<" ">> \o Join(Tail(texts))

AllText(res) == Join([e \in DOMAIN res.all_text_elements |-> res.all_text_elements[e].text])

\* group(1) whatever the number of groups
MatchValue_first_group(s, m) == Group(s, m, 1)

\* line 183: group(1) of a one-group match, else the tuple of the groups
MatchValue(s, m) == IF LastIndex(m) = 1 THEN Group(s, m, 1) ELSE Groups(s, m)

\* lines 181-183 for the pattern tp: drawing_info after it
SearchField(info, tp, all_text) ==
    LET m == ReSearch(tp.pat, all_text, TRUE)
    IN IF m # <<>> THEN (tp.key :> MatchValue(all_text, m[1])) @@ info ELSE info

RECURSIVE SearchFields(_, _, _)
SearchFields(info, p, all_text) ==
    IF p > Len(title_patterns) THEN info
    ELSE SearchFields(SearchField(info, title_patterns[p], all_text), p + 1, all_text)

extract_title_block_info(res) ==
    [res EXCEPT !.drawing_info = SearchFields(res.drawing_info, 1, AllText(res))]

---------------------------------------------------------------------------
(* extract_drawing_elements.  A document is [ok, pages]: ok tells whether  *)
(* fitz.open accepts the bytes.  A page is [width, height, rotation,       *)
(* blocks, drawings, images]; a text block has the key lines, an image     *)
(* block has not; a line is [spans]; a span of the parser is [text, bbox,  *)
(* font, size, color, flags].                                              *)

\* lines 73-81
NewResults ==
    [metadata |-> <<>>, pages |-> <<>>, markers |-> <<>>, title_blocks |-> <<>>,
     all_text_elements |-> <<>>, tables |-> <<>>, drawing_info |-> <<>>]

\* lines 107-120: the raw span of a parser span, none for blank text
RawSpans(span) ==
    IF Strip(span.text) = <<>> THEN <<>>
    ELSE << [text |-> Strip(span.text), x |-> span.bbox[1], y |-> span.bbox[2],
             bbox |-> span.bbox, font |-> span.font, size |-> span.size,
             color |-> span.color, flags |-> span.flags] >>

RECURSIVE LineSpans(_)
LineSpans(sps) ==
    IF Len(sps) = 0 THEN <<>> ELSE RawSpans(Head(sps)) \o LineSpans(Tail(sps))

RECURSIVE BlockSpans(_)
BlockSpans(lines) ==
    IF Len(lines) = 0 THEN <<>>
    ELSE LineSpans(Head(lines).spans) \o BlockSpans(Tail(lines))

\* lines 98-120
RECURSIVE CollectSpans(_)
CollectSpans(blocks) ==
    IF Len(blocks) = 0 THEN <<>>
    ELSE (IF "lines" \notin DOMAIN Head(blocks) THEN <<>>
          ELSE BlockSpans(Head(blocks).lines)) \o CollectSpans(Tail(blocks))

\* markers is a dict in insertion order: a sequence of [key, value]
HasKey(d, key) == \E j \in DOMAIN d : d[j].key = key
Keys(d) == [j \in DOMAIN d |-> d[j].key]

\* the occurrence put in place of the list instead of appended to it
AddMarker_overwrite(markers, t, occ) ==
    LET m == IF HasKey(markers, t) THEN markers
             ELSE Append(markers, [key |-> t, value |-> <<>>])
    IN [j \in DOMAIN m |->
          IF m[j].key = t THEN [m[j] EXCEPT !.value = <<occ>>] ELSE m[j]]

\* lines 139-146
AddMarker(markers, t, occ) ==
    LET m == IF HasKey(markers, t) THEN markers
             ELSE Append(markers, [key |-> t, value |-> <<>>])
    IN [j \in DOMAIN m |->
          IF m[j].key = t THEN [m[j] EXCEPT !.value = Append(@, occ)] ELSE m[j]]

\* lines 124-151 for one element: acc is [markers, elements, all]
Classify(acc, el, pn) ==
    LET element_data ==
            [text |-> el.text, x |-> el.x, y |-> el.y, bbox |-> el.bbox,
             font |-> el.font, size |-> el.size, page |-> pn + 1]
        marker == is_construction_marker(el.text)
        typed == element_data @@ ("type" :> IF marker THEN "marker" ELSE "text")
    IN [markers  |-> IF marker
                     THEN AddMarker(acc.markers, el.text,
                                    [x |-> el.x, y |-> el.y, bbox |-> el.bbox,
                                     page |-> pn + 1])
                     ELSE acc.markers,
        elements |-> Append(acc.elements, typed),
        all      |-> Append(acc.all, typed)]

RECURSIVE ClassifyAll(_, _, _)
ClassifyAll(acc, els, pn) ==
    IF Len(els) = 0 THEN acc
    ELSE ClassifyAll(Classify(acc, Head(els), pn), Tail(els), pn)

\* lines 83-160: one iteration of the page loop, pn counting from 0
ProcessPageOf(res, page, pn) ==
    LET clean_elements == cluster_text(CollectSpans(page.blocks), threshold)
        acc == ClassifyAll([markers |-> res.markers, elements |-> <<>>,
                            all |-> res.all_text_elements], clean_elements, pn)
        page_data == [page |-> pn + 1, width |-> page.width, height |-> page.height,
                      rotation |-> page.rotation, elements |-> acc.elements,
                      vector_count |-> page.drawings,
                      has_drawings |-> page.drawings > 0,
                      image_count |-> page.images]
    IN [res EXCEPT
          !.metadata = Append(@, [page |-> pn + 1, width |-> page.width,
                                  height |-> page.height, rotation |-> page.rotation]),
          !.markers = acc.markers,
          !.all_text_elements = acc.all,
          !.pages = Append(@, page_data)]

\* the lengths of the sequences of seqs added up
RECURSIVE SumLens(_)
SumLens(seqs) == IF Len(seqs) = 0 THEN 0 ELSE Len(Head(seqs)) + SumLens(Tail(seqs))

\* the summary with the occurrences counted instead of the keys
Summary_occurrences(res) ==
    [total_pages |-> Len(res.metadata),
     total_markers |-> SumLens([j \in DOMAIN res.markers |-> res.markers[j].value]),
     total_text_elements |-> Len(res.all_text_elements),
     marker_types |-> Keys(res.markers)]

\* do_POST, lines 274-279
Summary(res) ==
    [total_pages |-> Len(res.metadata),
     total_markers |-> Len(res.markers),
     total_text_elements |-> Len(res.all_text_elements),
     marker_types |-> Keys(res.markers)]

---------------------------------------------------------------------------
(* Inputs *)

MaxPages   == 2
MaxSpans   == 3
MaxTextLen == 4
MaxRuns    == 2

BoundedSeq(S, n) == UNION { [1..m -> S] : m \in 0..n }

\* a span as the parser gives it: text t at (x, y), w wide and h high
PSpan(t, x, y, w, h) ==
    [text |-> t, bbox |-> <<x, y, x + w, y + h>>, font |-> "Helvetica",
     size |-> 10, color |-> 0, flags |-> 0]

PageA ==
    [width |-> 595, height |-> 842, rotation |-> 0, drawings |-> 2, images |-> 1,
     blocks |-> <<
        [lines |-> << [spans |-> << PSpan(<<"S">>, 10, 100, 2, 3),
                                    PSpan(<<"C">>, 12, 100, 2, 3),
                                    PSpan(<<"1">>, 14, 100, 2, 3) >>],
                      [spans |-> << PSpan(<<" ", " ">>, 30, 100, 4, 3),
                                    PSpan(<<" ", "B", "A", "S", "E", " ">>, 60, 100, 12, 3) >>] >>],
        [image |-> 1] >>]

PageB ==
    [width |-> 842, height |-> 595, rotation |-> 90, drawings |-> 0, images |-> 0,
     blocks |-> <<
        [lines |-> << [spans |-> << PSpan(<<"B", "P", "2">>, 10, 130, 6, 3) >>],
                      [spans |-> << PSpan(<<"S", "C", "1">>, 10, 100, 6, 3) >>],
                      [spans |-> << PSpan(<<"R", "e", "v", ":", " ", "A">>, 10, 160, 12, 3) >>] >>] >>]

PageC ==
    [width |-> 595, height |-> 842, rotation |-> 0, drawings |-> 0, images |-> 0,
     blocks |-> <<>>]

PageD ==
    [width |-> 595, height |-> 842, rotation |-> 0, drawings |-> 5, images |-> 0,
     blocks |-> <<
        [lines |-> << [spans |-> << PSpan(<<"S", "c", "a", "l", "e", ":">>, 10, 100, 12, 3),
                                    PSpan(<<"1", ":", "5", "0">>, 40, 100, 8, 3) >>],
                      [spans |-> << PSpan(<<"C", "-", "1">>, 10, 130, 6, 3),
                                    PSpan(<<"B", "P", "2">>, 60, 130, 6, 3) >>] >>] >>]

PageSet == {PageA, PageB, PageC, PageD}

Documents ==
    { [ok |-> FALSE, pages |-> <<>>] } \cup
    { [ok |-> TRUE, pages |-> ps] : ps \in BoundedSeq(PageSet, MaxPages) }

---------------------------------------------------------------------------
(* do_POST from line 271 on, and extract_drawing_elements inside it.       *)
(* results is <<>> until line 73 has made the dict, then <<the dict>>;      *)
(* response is <<>> until a response has been written; log is the history   *)
(* of the steps taken.                                                      *)

Ev(name, n) == [ev |-> name, n |-> n]

PipeIdle ==
    /\ pc = "idle" /\ doc = [ok |-> FALSE, pages |-> <<>>] /\ page_num = 0
    /\ results = <<>> /\ response = <<>> /\ log = <<>>

ClusterIdle ==
    /\ cpc = "idle" /\ spans = <<>> /\ current = <<>> /\ clusters = <<>>
    /\ next_i = 0 /\ members = <<>> /\ run_members = <<>>

MarkerIdle == mpc = "idle" /\ text = <<>> /\ verdict = <<>>

PipeInit ==
    /\ pc = "post" /\ doc \in Documents /\ page_num = 0
    /\ results = <<>> /\ response = <<>> /\ log = <<>>

\* line 71 succeeds, lines 73-81
OpenDocument ==
    /\ pc = "post" /\ doc.ok
    /\ results' = <<NewResults>>
    /\ page_num' = 0
    /\ pc' = "pages"
    /\ log' = Append(log, Ev("open", 0))
    /\ UNCHANGED <<doc, response>>
    /\ UNCHANGED <<clusterVars, markerVars>>

\* line 71 raises: nothing of extract_drawing_elements has run
OpenFail ==
    /\ pc = "post" /\ ~doc.ok
    /\ pc' = "except"
    /\ log' = Append(log, Ev("open_failed", 0))
    /\ UNCHANGED <<doc, page_num, results, response>>
    /\ UNCHANGED <<clusterVars, markerVars>>

\* lines 83-160, one iteration
ProcessPage ==
    /\ pc = "pages" /\ page_num < Len(doc.pages)
    /\ results' = <<ProcessPageOf(results[1], doc.pages[page_num + 1], page_num)>>
    /\ page_num' = page_num + 1
    /\ log' = Append(log, Ev("page", page_num + 1))
    /\ UNCHANGED <<pc, doc, response>>
    /\ UNCHANGED <<clusterVars, markerVars>>

\* the title block searched inside the page loop's reach, pages left or not
TitleBlock_early ==
    /\ pc = "pages"
    /\ results' = <<extract_title_block_info(results[1])>>
    /\ pc' = "close"
    /\ log' = Append(log, Ev("title", 0))
    /\ UNCHANGED <<doc, page_num, response>>
    /\ UNCHANGED <<clusterVars, markerVars>>

\* line 162, the loop being over
TitleBlock ==
    /\ pc = "pages" /\ page_num = Len(doc.pages)
    /\ results' = <<extract_title_block_info(results[1])>>
    /\ pc' = "close"
    /\ log' = Append(log, Ev("title", 0))
    /\ UNCHANGED <<doc, page_num, response>>
    /\ UNCHANGED <<clusterVars, markerVars>>

\* lines 164-165
Return ==
    /\ pc = "close"
    /\ pc' = "summary"
    /\ log' = Append(log, Ev("return", 0))
    /\ UNCHANGED <<doc, page_num, results, response>>
    /\ UNCHANGED <<clusterVars, markerVars>>

\* lines 274-279
Summarise ==
    /\ pc = "summary"
    /\ results' = << ("summary" :> Summary(results[1])) @@ results[1] >>
    /\ pc' = "send"
    /\ log' = Append(log, Ev("summary", 0))
    /\ UNCHANGED <<doc, page_num, response>>
    /\ UNCHANGED <<clusterVars, markerVars>>

\* lines 282-286
Send ==
    /\ pc = "send"
    /\ response' = << [status |-> 200, body |-> results[1]] >>
    /\ pc' = "done"
    /\ log' = Append(log, Ev("send", 200))
    /\ UNCHANGED <<doc, page_num, results>>
    /\ UNCHANGED <<clusterVars, markerVars>>

\* lines 290-291 and send_error_response
SendError ==
    /\ pc = "except"
    /\ response' = << [status |-> 500, body |-> [error |-> "Extraction failed"]] >>
    /\ pc' = "done"
    /\ log' = Append(log, Ev("send", 500))
    /\ UNCHANGED <<doc, page_num, results>>
    /\ UNCHANGED <<clusterVars, markerVars>>

Init == PipeInit /\ ClusterIdle /\ MarkerIdle

Next ==
    \/ OpenDocument
    \/ OpenFail
    \/ ProcessPage
    \/ TitleBlock
    \/ Return
    \/ Summarise
    \/ Send
    \/ SendError

Spec == Init /\ [][Next]_vars

---------------------------------------------------------------------------
(* cluster_text step by step.  spans is the argument (sorted in place by   *)
(* line 27), current is <<>> before line 33 and <<the cluster>> after,     *)
(* next_i is the position of next_span in the sorted list.  members and    *)
(* run_members are history: the positions (in the sorted list) of the      *)
(* spans merged into current, and into each emitted cluster.               *)

Glyphs == { [ch |-> "S", w |-> 2, h |-> 2], [ch |-> "W", w |-> 8, h |-> 4] }
XS == {10, 12, 14, 18}
YS == {100, 101, 102}

\* a raw span as lines 111-120 build it
Frag(t, x, y, w, h) ==
    [text |-> t, x |-> x, y |-> y, bbox |-> <<x, y, x + w, y + h>>,
     font |-> "Helvetica", size |-> 10, color |-> 0, flags |-> 0]

Fragments == { Frag(<<g.ch>>, x, y, g.w, g.h) : g \in Glyphs, x \in XS, y \in YS }

\* the fragments of the clustering example: "S", "C", "1" two units apart
ExampleSC1 ==
    << Frag(<<"S">>, 10, 100, 2, 3), Frag(<<"C">>, 12, 100, 2, 3),
       Frag(<<"1">>, 14, 100, 2, 3) >>

ClusterInputs == BoundedSeq(Fragments, MaxSpans) \cup {ExampleSC1}

ClusterInit ==
    /\ cpc = "call" /\ spans \in ClusterInputs /\ current = <<>> /\ clusters = <<>>
    /\ next_i = 0 /\ members = <<>> /\ run_members = <<>>

\* lines 24-25
ReturnEmpty ==
    /\ cpc = "call" /\ Len(spans) = 0
    /\ clusters' = <<>>
    /\ cpc' = "done"
    /\ UNCHANGED <<spans, current, next_i, members, run_members>>
    /\ UNCHANGED <<pipeVars, markerVars>>

\* lines 27-33
SortAndStart ==
    /\ cpc = "call" /\ Len(spans) > 0
    /\ spans' = SortSpans(spans)
    /\ clusters' = <<>>
    /\ current' = << spans'[1] >>
    /\ members' = <<1>>
    /\ next_i' = 2
    /\ cpc' = "loop"
    /\ UNCHANGED run_members
    /\ UNCHANGED <<pipeVars, markerVars>>

\* lines 35-46: next_span continues the current cluster
Merge ==
    /\ cpc = "loop" /\ next_i <= Len(spans)
    /\ Continues(spans[next_i], current[1], threshold)
    /\ current' = << MergeSpan(current[1], spans[next_i]) >>
    /\ members' = Append(members, next_i)
    /\ next_i' = next_i + 1
    /\ UNCHANGED <<cpc, spans, clusters, run_members>>
    /\ UNCHANGED <<pipeVars, markerVars>>

\* lines 35-37 and 47-50: next_span starts a new cluster
StartNew ==
    /\ cpc = "loop" /\ next_i <= Len(spans)
    /\ ~Continues(spans[next_i], current[1], threshold)
    /\ clusters' = Emit(clusters, current[1])
    /\ run_members' = IF Len(clusters') > Len(clusters)
                      THEN Append(run_members, members) ELSE run_members
    /\ current' = << spans[next_i] >>
    /\ members' = <<next_i>>
    /\ next_i' = next_i + 1
    /\ UNCHANGED <<cpc, spans>>
    /\ UNCHANGED <<pipeVars, markerVars>>

\* lines 52-55
Finish ==
    /\ cpc = "loop" /\ next_i > Len(spans)
    /\ clusters' = Emit(clusters, current[1])
    /\ run_members' = IF Len(clusters') > Len(clusters)
                      THEN Append(run_members, members) ELSE run_members
    /\ cpc' = "done"
    /\ UNCHANGED <<spans, current, next_i, members>>
    /\ UNCHANGED <<pipeVars, markerVars>>

InitCluster == PipeIdle /\ ClusterInit /\ MarkerIdle

NextCluster ==
    \/ ReturnEmpty
    \/ SortAndStart
    \/ Merge
    \/ StartNew
    \/ Finish

SpecCluster == InitCluster /\ [][NextCluster]_vars

\* the loop computes what cluster_text returns
LoopIsClusterText ==
    cpc = "done" => clusters = cluster_text(spans, threshold)

---------------------------------------------------------------------------
(* Properties of cluster_text (under SpecCluster) *)

\* the member lists and the clusters of every run so far, the current one last
RunsSoFar == IF cpc = "loop" THEN Append(run_members, members) ELSE run_members
BoxesSoFar == IF cpc = "loop" THEN Append(clusters, current[1]) ELSE clusters

MaxOf(S) == CHOOSE m \in S : \A n \in S : n <= m
MinOf(S) == CHOOSE m \in S : \A n \in S : m <= n

\* the length of the text of the first n members of ms
RECURSIVE TextLenOf(_, _)
TextLenOf(ms, n) ==
    IF n = 0 THEN 0 ELSE TextLenOf(ms, n - 1) + Len(spans[ms[n]].text)

\* the texts of the members of ms, one after the other
RECURSIVE TextOf(_)
TextOf(ms) == IF Len(ms) = 0 THEN <<>> ELSE spans[Head(ms)].text \o TextOf(Tail(ms))

\* how far the right one of two spans starts behind the estimated end of the
\* left one
HGap(a, b) ==
    IF a.x <= b.x THEN b.x - (a.x + 2 * Len(a.text))
    ELSE a.x - (b.x + 2 * Len(b.text))

SameRun(i, j) == \E r \in DOMAIN RunsSoFar : {i, j} \subseteq Range(RunsSoFar[r])

\* C2 as claimed: two fragments on the same line (y less than 2 apart) and
\* more than the threshold apart horizontally are never in the same run.
C2_SeparatedNeverMerged ==
    cpc \in {"loop", "done"} =>
        \A i, j \in DOMAIN spans :
            (i # j /\ Abs(spans[i].y - spans[j].y) < 2
                   /\ HGap(spans[i], spans[j]) > 5)
            => ~SameRun(i, j)

\* the span at position k of ms is within reach of the run its predecessors
\* make: less than 2 below the run's first span, and starting less than 5
\* behind the run's x plus twice the length of the run's text
Reaches(ms, k) ==
    /\ Abs(spans[ms[k]].y - spans[ms[1]].y) < 2
    /\ spans[ms[k]].x - (spans[ms[1]].x + 2 * TextLenOf(ms, k - 1)) < 5

\* C2 amended: a fragment joins the run before it in (y, x) order exactly when
\* it is on the run's line and starts less than the threshold behind the run's
\* estimated end (the run's x plus twice the length of its text so far); a
\* fragment that starts the threshold or more behind that end is never merged
\* into the run and starts a new one.
C2_MergedOnlyWithinReach ==
    cpc \in {"loop", "done"} =>
        \A r \in DOMAIN RunsSoFar :
            LET ms == RunsSoFar[r]
            IN /\ \A k \in 2..Len(ms) : ms[k] = ms[k - 1] + 1 /\ Reaches(ms, k)
               /\ r < Len(RunsSoFar) =>
                    /\ RunsSoFar[r + 1][1] = ms[Len(ms)] + 1
                    /\ ~Reaches(Append(ms, RunsSoFar[r + 1][1]), Len(ms) + 1)

\* two fragments on one line, the second 6 behind the estimated end of the
\* first, have come out as two runs
C2_Witness ==
    /\ cpc = "done" /\ Len(spans) = 2
    /\ spans[1].y = spans[2].y
    /\ spans[2].x - (spans[1].x + 2 * Len(spans[1].text)) >= 5
    /\ run_members = << <<1>>, <<2>> >>
    /\ Len(clusters) = 2

\* C3 as claimed: the bbox of the current cluster and of every emitted run has
\* the left and top of its first fragment, and the greatest right and the
\* greatest bottom of the fragments merged into it.
C3_BboxIsExtent ==
    cpc \in {"loop", "done"} =>
        \A r \in DOMAIN RunsSoFar :
            LET ms == RunsSoFar[r]
                b  == BoxesSoFar[r].bbox
            IN /\ b[1] = spans[ms[1]].bbox[1]
               /\ b[2] = spans[ms[1]].bbox[2]
               /\ b[3] = MaxOf({ spans[m].bbox[3] : m \in Range(ms) })
               /\ b[4] = MaxOf({ spans[m].bbox[4] : m \in Range(ms) })

\* C4: two fragments whose y differ by 2 or more are never in the same run,
\* whatever lies between them.
C4_LinesStayApart ==
    cpc \in {"loop", "done"} =>
        \A i, j \in DOMAIN spans :
            Abs(spans[i].y - spans[j].y) >= 2 => ~SameRun(i, j)

\* three fragments at one x on y = 100, 101, 102: the first two are one run,
\* the third, 2 below the first, is another
C4_Witness ==
    /\ cpc = "done" /\ Len(spans) = 3
    /\ spans[1].x = spans[2].x /\ spans[2].x = spans[3].x
    /\ spans[2].y = spans[1].y + 1 /\ spans[3].y = spans[2].y + 1
    /\ run_members = << <<1, 2>>, <<3>> >>

\* single-character fragments on one y, each 2 further right than the one
\* before (the spans being sorted)
IsCharSequence ==
    /\ Len(spans) >= 2
    /\ \A k \in DOMAIN spans : Len(spans[k].text) = 1
    /\ \A k \in 2..Len(spans) :
         spans[k].y = spans[k - 1].y /\ spans[k].x = spans[k - 1].x + 2

\* C9 as claimed: such a sequence comes out as one run with the characters in
\* x order, the x and y of the first fragment and a bbox that spans every
\* merged fragment; no fragments give no runs; one fragment gives one run
\* equal to it.
C9_CharSequenceIsOneRun ==
    cpc = "done" =>
        /\ IsCharSequence =>
             /\ Len(clusters) = 1
             /\ clusters[1].text = TextOf([k \in DOMAIN spans |-> k])
             /\ clusters[1].x = spans[1].x /\ clusters[1].y = spans[1].y
             /\ clusters[1].bbox =
                  << MinOf({ spans[k].bbox[1] : k \in DOMAIN spans }),
                     MinOf({ spans[k].bbox[2] : k \in DOMAIN spans }),
                     MaxOf({ spans[k].bbox[3] : k \in DOMAIN spans }),
                     MaxOf({ spans[k].bbox[4] : k \in DOMAIN spans }) >>
        /\ Len(spans) = 0 => clusters = <<>>
        /\ Len(spans) = 1 => clusters = spans

\* the texts of the records of rs, one after the other
RECURSIVE JoinTexts(_)
JoinTexts(rs) == IF Len(rs) = 0 THEN <<>> ELSE Head(rs).text \o JoinTexts(Tail(rs))

\* every fragment has a text that is not empty and has no blank at either end
NonBlankInput ==
    \A k \in DOMAIN spans : spans[k].text # <<>> /\ Strip(spans[k].text) = spans[k].text

\* out holds the records of inp, each once and as it was, by ascending (y, x),
\* records with one (y, x) in the order they have in inp
IsStableSortOf(out, inp) ==
    /\ Len(out) = Len(inp)
    /\ \E p \in [DOMAIN out -> DOMAIN inp] :
         /\ \A i, j \in DOMAIN out : i # j => p[i] # p[j]
         /\ \A i \in DOMAIN out : out[i] = inp[p[i]]
         /\ \A i, j \in DOMAIN out :
              i < j =>
                \/ out[i].y < out[j].y
                \/ out[i].y = out[j].y /\ out[i].x < out[j].x
                \/ out[i].y = out[j].y /\ out[i].x = out[j].x /\ p[i] < p[j]

\* the (y, x) keys of the records of rs never go down
KeysAscend(rs) ==
    \A i, j \in DOMAIN rs :
        i < j => rs[i].y < rs[j].y \/ (rs[i].y = rs[j].y /\ rs[i].x <= rs[j].x)

\* what a step of cluster_text leaves: the list sorted (stably) by the first step
\* and untouched by every other, the texts of the fragments taken so far in the
\* runs and the current cluster, in order, no run without text, the runs in
\* key order
ConservingStep ==
    /\ IF cpc = "call" /\ cpc' = "loop"
       THEN IsStableSortOf(spans', spans)
       ELSE spans' = spans
    /\ cpc' = "loop" =>
         JoinTexts(clusters') \o current'[1].text
             = JoinTexts(SubSeq(spans', 1, next_i' - 1))
    /\ cpc' = "done" => JoinTexts(clusters') = JoinTexts(spans')
    /\ \A r \in DOMAIN clusters' : Strip(clusters'[r].text) # <<>>
    /\ KeysAscend(clusters')

\* C11: when every input fragment has a non-empty, trimmed text, cluster_text
\* loses and duplicates nothing: the texts of the output runs, one after the
\* other, are the texts of the input fragments in (y, x) order (fragments with
\* one key in input order); every output run has a text; the runs' (y, x) keys
\* never go down; and the fragment records are left as they were, only the
\* order of the list changes.
C11_TextConserved == [][NonBlankInput => ConservingStep]_vars

\* two fragments with one (y, x) and different texts have been merged in their
\* list order, and a fragment two lines below has become a second run
C11_Witness ==
    /\ cpc = "done" /\ Len(spans) = 3 /\ NonBlankInput
    /\ spans[1].x = spans[2].x /\ spans[1].y = spans[2].y
    /\ spans[1].text = <<"W">> /\ spans[2].text = <<"S">>
    /\ Len(clusters) = 2
    /\ clusters[1].text = <<"W", "S">>
    /\ clusters[2].text = spans[3].text

---------------------------------------------------------------------------
(* is_construction_marker as a function of its argument: verdict is <<>>   *)
(* before the call and <<the result>> after it.                            *)

MarkerChars == {"A", "S", "C", "1", "a", "-", " "}

MarkerTexts ==
    { <<"B","P","1">>, <<"S","C","2">>, <<"R","W","3","a">>, <<"C","-","1">>,
      <<"A","1">>, <<"F","B","4">> }

PlainTexts ==
    { <<"B","A","S","E"," ","P","L","A","T","E"," ","D","E","T","A","I","L">>,
      <<"S","t","e","e","l"," ","C","o","n","n","e","c","t","i","o","n">>,
      <<"S","c","a","l","e",":"," ","1",":","5","0">> }

EdgeTexts ==
    { <<"A","B","C","D","1","2","3","a">>, <<"A","B","C","D","E","1">>,
      <<"A","1","2","3","4">>, <<"A","B","-","1","2","3">>, <<"A","B","C","-","1">>,
      <<"A","1","2","3","B">>, <<"A","B","1","B">>, <<"W","1","2","3">>,
      <<"\t","B","P","1"," ","\n">>, <<"B","P","1","\n","\n">>, <<"B","P","1","a","a">> }

MarkerInputs ==
    BoundedSeq(MarkerChars, MaxTextLen) \cup MarkerTexts \cup PlainTexts \cup EdgeTexts

MarkerInit == mpc = "call" /\ text \in MarkerInputs /\ verdict = <<>>

\* lines 58-66
ClassifyText ==
    /\ mpc = "call"
    /\ verdict' = << is_construction_marker(text) >>
    /\ mpc' = "done"
    /\ UNCHANGED text
    /\ UNCHANGED <<pipeVars, clusterVars>>

\* the classifier alone and inside the page loop
InitMarker ==
    \/ PipeIdle /\ ClusterIdle /\ MarkerInit
    \/ PipeInit /\ ClusterIdle /\ MarkerIdle

NextMarker ==
    \/ ClassifyText
    \/ OpenDocument
    \/ OpenFail
    \/ ProcessPage
    \/ TitleBlock
    \/ Return
    \/ Summarise
    \/ Send
    \/ SendError

SpecMarker == InitMarker /\ [][NextMarker]_vars

---------------------------------------------------------------------------
(* extract_title_block_info as a function of the elements collected *)

Str_Drawing  == <<"D","r","a","w","i","n","g",":">>
Str_DWG001   == <<"D","W","G","-","0","0","1">>
Str_REVISION == <<"R","E","V","I","S","I","O","N",":">>
Str_Rev      == <<"R","e","v",":">>
Str_Scale    == <<"S","c","a","l","e",":">>
Str_1to50    == <<"1",":","5","0">>
Str_Sheet2   == <<"S","h","e","e","t"," ","2">>
Str_Date     == <<"1","2","/","0","1","/","2","0","2","4">>

TitleTokens ==
    { Str_Drawing, Str_DWG001, Str_REVISION, Str_Rev, <<"B">>, Str_Scale, Str_1to50,
      <<"1","/","2","0">>, Str_Sheet2, <<"o","f"," ","3">>, <<"S","H","T",".","1","/","4">>,
      Str_Date }

\* the two runs of the title-block example
ExampleTitle ==
    << Str_Drawing \o <<" ">> \o Str_DWG001 \o <<" ">> \o Str_Rev \o <<" ", "A">>,
       Str_Scale \o <<" ">> \o Str_1to50 >>

TitleInputs == BoundedSeq(TitleTokens, MaxRuns) \cup {ExampleTitle}

\* an element as lines 127-151 leave it
Element(t, pg) ==
    [text |-> t, x |-> 0, y |-> 0, bbox |-> <<0, 0, 0, 0>>, font |-> "Helvetica",
     size |-> 10, page |-> pg,
     type |-> IF is_construction_marker(t) THEN "marker" ELSE "text"]

TitleInit ==
    /\ pc = "title_call" /\ doc = [ok |-> TRUE, pages |-> <<>>] /\ page_num = 0
    /\ \E ts \in TitleInputs :
         results = << [NewResults EXCEPT
                         !.all_text_elements = [k \in DOMAIN ts |-> Element(ts[k], 1)]] >>
    /\ response = <<>> /\ log = <<>>

\* line 162 and lines 168-183
TitleCall ==
    /\ pc = "title_call"
    /\ results' = << extract_title_block_info(results[1]) >>
    /\ pc' = "title_done"
    /\ UNCHANGED <<doc, page_num, response, log>>
    /\ UNCHANGED <<clusterVars, markerVars>>

InitTitle == TitleInit /\ ClusterIdle /\ MarkerIdle

NextTitle == TitleCall

SpecTitle == InitTitle /\ [][NextTitle]_vars

---------------------------------------------------------------------------
(* Properties of is_construction_marker (under SpecMarker) *)

\* t without the whitespace around it
Trimmed(t) ==
    LET inked == { k \in DOMAIN t : t[k] \notin {" ", "\t", "\n"} }
    IN IF inked = {} THEN <<>> ELSE SubSeq(t, MinOf(inked), MaxOf(inked))

AllIn(u, from, to, cls) == \A k \in from..to : u[k] \in cls

\* 1-4 uppercase letters, 1-3 digits, at most one lowercase letter
Shape1(u) ==
    \E a \in 1..4, d \in 1..3, l \in 0..1 :
        /\ Len(u) = a + d + l
        /\ AllIn(u, 1, a, UPPER) /\ AllIn(u, a + 1, a + d, DIGIT)
        /\ AllIn(u, a + d + 1, a + d + l, LOWER)

\* 1-2 uppercase letters, a hyphen, 1-3 digits
Shape2(u) ==
    \E a \in 1..2, d \in 1..3 :
        /\ Len(u) = a + 1 + d
        /\ AllIn(u, 1, a, UPPER) /\ u[a + 1] = "-" /\ AllIn(u, a + 2, a + 1 + d, DIGIT)

\* one uppercase letter, 1-3 digits, at most one uppercase letter
Shape3(u) ==
    \E d \in 1..3, l \in 0..1 :
        /\ Len(u) = 1 + d + l
        /\ AllIn(u, 1, 1, UPPER) /\ AllIn(u, 2, 1 + d, DIGIT)
        /\ AllIn(u, 2 + d, 1 + d + l, UPPER)

\* one of SC, BP, RW, FB, C, B, W, then 1-3 digits
Shape4(u) ==
    \E pre \in { <<"S","C">>, <<"B","P">>, <<"R","W">>, <<"F","B">>,
                 <<"C">>, <<"B">>, <<"W">> }, d \in 1..3 :
        /\ Len(u) = Len(pre) + d
        /\ SubSeq(u, 1, Len(pre)) = pre
        /\ AllIn(u, Len(pre) + 1, Len(pre) + d, DIGIT)

MarkerShape(t) ==
    LET u == Trimmed(t) IN Shape1(u) \/ Shape2(u) \/ Shape3(u) \/ Shape4(u)

\* every element the page loop has made, in all_text_elements and in pages
ElementsMade ==
    IF results = <<>> THEN {}
    ELSE Range(results[1].all_text_elements)
         \cup UNION { Range(results[1].pages[p].elements) : p \in DOMAIN results[1].pages }

\* C5: is_construction_marker(text) is true exactly when the trimmed text, as a
\* whole, has one of the four marker shapes; BP1, SC2, RW3a, C-1, A1, FB4 are
\* markers, "BASE PLATE DETAIL", "Steel Connection", "Scale: 1:50" are not;
\* every run gets exactly one of the types marker and text, marker exactly
\* when its text has a marker shape.
C5_MarkerIffShape ==
    /\ mpc = "done" =>
         /\ verdict[1] <=> MarkerShape(text)
         /\ text \in MarkerTexts => verdict[1]
         /\ text \in PlainTexts => ~verdict[1]
    /\ \A e \in ElementsMade :
         /\ e.type \in {"marker", "text"}
         /\ e.type = "marker" <=> MarkerShape(e.text)

\* "RW3a" has been classified as a marker, and " A1" with a blank before it
C5_Witness ==
    /\ mpc = "done"
    /\ text \in { <<"R","W","3","a">>, <<" ","A","1">> }
    /\ verdict = <<TRUE>>

\* line 66 for a list ps of patterns: any(...) tries them in order and stops at
\* the first that matches the trimmed text
RECURSIVE any_match(_, _)
any_match(ps, t) ==
    IF Len(ps) = 0 THEN FALSE
    ELSE IF ReMatch(Head(ps), Strip(t), FALSE) # <<>> THEN TRUE
    ELSE any_match(Tail(ps), t)

\* C12: the fourth marker pattern accepts no text that the first does not
\* accept, so is_construction_marker gives what a classifier with the first
\* three patterns alone gives, and what the four patterns give in any order.
C12_FourthPatternRedundant ==
    mpc = "done" =>
        /\ ReMatch(patterns[4], Strip(text), FALSE) # <<>>
             => ReMatch(patterns[1], Strip(text), FALSE) # <<>>
        /\ verdict[1] = any_match(SubSeq(patterns, 1, 3), text)
        /\ \A order \in Permutations(DOMAIN patterns) :
             verdict[1] = any_match([i \in DOMAIN patterns |-> patterns[order[i]]], text)

\* "SC2", which the fourth pattern accepts, has been classified as a marker
C12_Witness ==
    /\ mpc = "done" /\ text = <<"S", "C", "2">>
    /\ ReMatch(patterns[4], Strip(text), FALSE) # <<>>
    /\ verdict = <<TRUE>>

---------------------------------------------------------------------------
(* Properties of extract_title_block_info (under SpecTitle).  The fields    *)
(* are described here by position: where a label stands, where the          *)
(* separators after it end, where the value ends.                           *)

\* s with its lowercase letters made uppercase (U below is a text so folded)
Fold(s) ==
    [k \in DOMAIN s |->
        IF \E n \in DOMAIN LowerSeq : LowerSeq[n] = s[k]
        THEN UpperSeq[CHOOSE n \in DOMAIN LowerSeq : LowerSeq[n] = s[k]]
        ELSE s[k]]

\* the texts with one blank between neighbours
RECURSIVE SpaceJoined(_)
SpaceJoined(texts) ==
    IF Len(texts) = 0 THEN <<>>
    ELSE IF Len(texts) = 1 THEN texts[1]
    ELSE SpaceJoined(SubSeq(texts, 1, Len(texts) - 1)) \o <<" ">> \o texts[Len(texts)]

JoinedText ==
    SpaceJoined([k \in DOMAIN results[1].all_text_elements |->
                    results[1].all_text_elements[k].text])

WordAt(U, i, w) == i + Len(w) - 1 <= Len(U) /\ SubSeq(U, i, i + Len(w) - 1) = w

\* the first position from j on that holds no character of cls
RunEnd(U, j, cls) == MinOf({ e \in j..(Len(U) + 1) : e = Len(U) + 1 \/ U[e] \notin cls })

Blanks == {" ", "\t", "\n"}
Seps == Blanks \cup {".", ":"}
Digits == {"0","1","2","3","4","5","6","7","8","9"}
DrawingChars == UPPER \cup Digits \cup {"-"}
RevisionChars == UPPER \cup Digits

Found(s, from, to) == << [from |-> from, to |-> to, val |-> SubSeq(s, from, to)] >>

\* label word w at i, separators, then a value of the characters of cls
LabelValueAt(s, U, i, w, cls) ==
    LET j == RunEnd(U, i + Len(w), Seps)
        e == RunEnd(U, j, cls)
    IN IF WordAt(U, i, w) /\ e > j THEN Found(s, j, e - 1) ELSE <<>>

DrawingNumberAt(s, U, i) ==
    LabelValueAt(s, U, i, <<"D","W","G">>, DrawingChars)
        \o LabelValueAt(s, U, i, <<"D","R","A","W","I","N","G">>, DrawingChars)

RevisionAt(s, U, i) ==
    LabelValueAt(s, U, i, <<"R","E","V">>, RevisionChars)
        \o LabelValueAt(s, U, i, <<"R","E","V","I","S","I","O","N">>, RevisionChars)

\* SCALE at i, separators, digits, a colon or a slash, digits
ScaleAt(s, U, i) ==
    LET j  == RunEnd(U, i + 5, Seps)
        e1 == RunEnd(U, j, Digits)
        e2 == RunEnd(U, e1 + 1, Digits)
    IN IF /\ WordAt(U, i, <<"S","C","A","L","E">>)
          /\ e1 > j /\ e1 <= Len(U) /\ U[e1] \in {":", "/"} /\ e2 > e1 + 1
       THEN Found(s, j, e2 - 1) ELSE <<>>

\* at i: 1-2 digits, a slash or hyphen, 1-2 digits, a slash or hyphen, and
\* 2-4 digits, as many as there are
DateAt(s, i) ==
    LET fits == { ab \in (1..2) \X (1..2) :
                    LET a == ab[1]
                        b == ab[2]
                    IN /\ i + a + b + 3 <= Len(s)
                       /\ AllIn(s, i, i + a - 1, Digits)
                       /\ s[i + a] \in {"/", "-"}
                       /\ AllIn(s, i + a + 1, i + a + b, Digits)
                       /\ s[i + a + b + 1] \in {"/", "-"}
                       /\ AllIn(s, i + a + b + 2, i + a + b + 3, Digits) }
    IN IF fits = {} THEN <<>>
       ELSE LET ab == CHOOSE x \in fits : TRUE
                c0 == i + ab[1] + ab[2] + 2
                e  == RunEnd(s, c0, Digits)
            IN Found(s, i, (IF e - c0 > 4 THEN c0 + 4 ELSE e) - 1)

\* label word w at i, separators, digits, blanks, OF or a slash, blanks, digits
SheetWordAt(s, U, i, w) ==
    LET j  == RunEnd(U, i + Len(w), Seps)
        e1 == RunEnd(U, j, Digits)
        k  == RunEnd(U, e1, Blanks)
        k2 == IF WordAt(U, k, <<"O","F">>) THEN k + 2 ELSE k + 1
        m  == RunEnd(U, k2, Blanks)
        e2 == RunEnd(U, m, Digits)
    IN IF /\ WordAt(U, i, w) /\ e1 > j
          /\ (WordAt(U, k, <<"O","F">>) \/ WordAt(U, k, <<"/">>))
          /\ e2 > m
       THEN << [from |-> j, to |-> e1 - 1,
                val |-> << SubSeq(s, j, e1 - 1), SubSeq(s, m, e2 - 1) >>] >>
       ELSE <<>>

SheetAt(s, U, i) ==
    SheetWordAt(s, U, i, <<"S","H","E","E","T">>) \o SheetWordAt(s, U, i, <<"S","H","T">>)

FieldAt(key, s, U, i) ==
    CASE key = "drawing_number" -> DrawingNumberAt(s, U, i)
      [] key = "revision" -> RevisionAt(s, U, i)
      [] key = "scale" -> ScaleAt(s, U, i)
      [] key = "date" -> DateAt(s, i)
      [] key = "sheet" -> SheetAt(s, U, i)

\* <<>> when the field of key stands nowhere in s, else <<its leftmost find>>
FirstFind(key, s) ==
    LET U  == Fold(s)
        at == { i \in DOMAIN s : FieldAt(key, s, U, i) # <<>> }
    IN IF at = {} THEN <<>> ELSE << FieldAt(key, s, U, MinOf(at))[1] >>

FieldKeys == {"drawing_number", "revision", "scale", "date", "sheet"}

\* C8: a key of drawing_info is there exactly when its pattern stands somewhere
\* in the joined text, no key is there otherwise, its value is the leftmost
\* find; sheet is a pair of numbers, the other four are single strings.
C8_FieldsIffFound ==
    pc = "title_done" =>
        LET s    == JoinedText
            info == results[1].drawing_info
        IN /\ DOMAIN info \subseteq FieldKeys
           /\ \A key \in FieldKeys :
                /\ key \in DOMAIN info <=> FirstFind(key, s) # <<>>
                /\ key \in DOMAIN info => info[key] = FirstFind(key, s)[1].val
           /\ "sheet" \in DOMAIN info =>
                /\ Len(info["sheet"]) = 2
                /\ \A part \in 1..2 :
                     /\ Len(info["sheet"][part]) > 0
                     /\ AllIn(info["sheet"][part], 1, Len(info["sheet"][part]), Digits)
           /\ \A key \in (DOMAIN info) \ {"sheet"} :
                /\ Len(info[key]) > 0
                /\ AllIn(Fold(info[key]), 1, Len(info[key]),
                         DrawingChars \cup {":", "/"})

\* "Sheet 2" and "of 3": sheet is the pair (2, 3) and no other key is there
C8_Witness ==
    /\ pc = "title_done"
    /\ DOMAIN results[1].drawing_info = {"sheet"}
    /\ results[1].drawing_info["sheet"] = << <<"2">>, <<"3">> >>

\* the positions of s that an occurrence of a label word of key covers
LabelPositions(key, s) ==
    LET words == IF key = "drawing_number"
                 THEN { <<"D","W","G">>, <<"D","R","A","W","I","N","G">> }
                 ELSE { <<"R","E","V">>, <<"R","E","V","I","S","I","O","N">> }
    IN UNION { IF WordAt(Fold(s), i, w) THEN i..(i + Len(w) - 1) ELSE {}
               : i \in DOMAIN s, w \in words }

\* C1 as claimed: the text "Drawing: DWG-001 Rev: A Scale: 1:50" gives exactly
\* drawing_number "001", revision "A", scale "1:50"; and whatever the text, an
\* extracted drawing_number or revision is the value behind the label and
\* takes nothing from a label word.
C1_LabelNeverCaptured ==
    pc = "title_done" =>
        LET s    == JoinedText
            info == results[1].drawing_info
        IN /\ s = SpaceJoined(ExampleTitle) =>
                info = [drawing_number |-> <<"0","0","1">>, revision |-> <<"A">>,
                        scale |-> <<"1",":","5","0">>]
           /\ \A key \in {"drawing_number", "revision"} \cap DOMAIN info :
                LET f == FirstFind(key, s)[1]
                IN /\ info[key] = f.val
                   /\ (f.from..f.to) \cap LabelPositions(key, s) = {}

---------------------------------------------------------------------------
(* Properties of the page loop and of do_POST (under Spec) *)

\* the clustered runs of page p of the document
RunsOfPage(p) == cluster_text(CollectSpans(doc.pages[p].blocks), 5)

Occurrence(e) == [x |-> e.x, y |-> e.y, bbox |-> e.bbox, page |-> e.page]

RECURSIVE Concat(_)
Concat(seqs) == IF Len(seqs) = 0 THEN <<>> ELSE Head(seqs) \o Concat(Tail(seqs))

IsMarkerOf(t, e) == e.type = "marker" /\ e.text = t

\* C6: after any number of pages, the elements are the runs of the pages done,
\* page by page, each with the 1-based number of its page; markers has one key
\* for each text that some run classified as marker has, and under it one
\* occurrence for each such run, in the order found, with the run's page; a
\* run classified as text adds no key and no occurrence.
C6_MarkersAreTheMarkerRuns ==
    results # <<>> /\ "summary" \notin DOMAIN results[1] =>
        LET R   == results[1]
            els == R.all_text_elements
        IN /\ Len(R.pages) = page_num
           /\ els = Concat([p \in DOMAIN R.pages |-> R.pages[p].elements])
           /\ \A p \in DOMAIN R.pages :
                /\ Len(R.pages[p].elements) = Len(RunsOfPage(p))
                /\ \A k \in DOMAIN R.pages[p].elements :
                     LET e == R.pages[p].elements[k]
                         r == RunsOfPage(p)[k]
                     IN /\ e.page = p
                        /\ <<e.text, e.x, e.y, e.bbox>> = <<r.text, r.x, r.y, r.bbox>>
           /\ \A i, j \in DOMAIN R.markers : i # j => R.markers[i].key # R.markers[j].key
           /\ { R.markers[i].key : i \in DOMAIN R.markers }
                = { e.text : e \in { x \in Range(els) : x.type = "marker" } }
           /\ \A i \in DOMAIN R.markers :
                LET t  == R.markers[i].key
                    of == SelectSeq(els, LAMBDA e : IsMarkerOf(t, e))
                IN /\ R.markers[i].value = [k \in DOMAIN of |-> Occurrence(of[k])]
                   /\ \A k \in 2..Len(R.markers[i].value) :
                        R.markers[i].value[k - 1].page <= R.markers[i].value[k].page

\* two pages done, "SC1" on both: one key with an occurrence on page 1 and
\* one on page 2, and a text run on page 1 that has no key
C6_Witness ==
    /\ results # <<>> /\ page_num = 2 /\ pc = "pages"
    /\ \E i \in DOMAIN results[1].markers :
         /\ results[1].markers[i].key = <<"S","C","1">>
         /\ Len(results[1].markers[i].value) = 2
         /\ results[1].markers[i].value[1].page = 1
         /\ results[1].markers[i].value[2].page = 2
    /\ \E e \in Range(results[1].all_text_elements) :
         e.type = "text" /\ ~HasKey(results[1].markers, e.text)

\* C7: in the response, total_markers is the number of distinct texts of the
\* runs classified as marker, total_text_elements the number of all runs of all
\* pages (the lengths of pages[i].elements added up), total_pages the number
\* of pages, and marker_types the keys of markers, each once.
C7_SummaryCounts ==
    response # <<>> /\ response[1].status = 200 =>
        LET B == response[1].body
            markerTexts == { e.text : e \in { x \in Range(B.all_text_elements) :
                                                 x.type = "marker" } }
        IN /\ B.summary.total_markers = Cardinality(markerTexts)
           /\ B.summary.total_text_elements = Len(B.all_text_elements)
           /\ B.summary.total_text_elements
                = SumLens([p \in DOMAIN B.pages |-> B.pages[p].elements])
           /\ B.summary.total_pages = Len(doc.pages)
           /\ B.summary.total_pages = Len(B.pages)
           /\ Range(B.summary.marker_types) = { B.markers[i].key : i \in DOMAIN B.markers }
           /\ Len(B.summary.marker_types) = Cardinality(Range(B.summary.marker_types))

\* a response with two distinct marker texts in three marker runs, five runs
\* in all
C7_Witness ==
    /\ response # <<>> /\ response[1].status = 200
    /\ response[1].body.summary.total_markers = 2
    /\ response[1].body.summary.total_text_elements = 5
    /\ Len(SelectSeq(response[1].body.all_text_elements,
                     LAMBDA e : e.type = "marker")) = 3

PageEvents(n) == [p \in 1..n |-> Ev("page", p)]

\* the result is whole: one metadata and one pages entry per page, numbered
\* from 1, the title block searched, the summary in place
Whole(res) ==
    /\ Len(res.metadata) = Len(doc.pages) /\ Len(res.pages) = Len(doc.pages)
    /\ \A p \in DOMAIN doc.pages : res.metadata[p].page = p /\ res.pages[p].page = p
    /\ res.drawing_info = extract_title_block_info(res).drawing_info
    /\ "summary" \in DOMAIN res

\* the request stands at a step whose condition holds
CanStep ==
    \/ pc = "post" /\ (doc.ok \/ ~doc.ok)
    \/ pc = "pages" /\ (page_num < Len(doc.pages) \/ page_num = Len(doc.pages))
    \/ pc \in {"close", "summary", "send", "except"}

===========================================================================
